---- MODULE Spec2Model ----
(***************************************************************************)
(* Model of combat/combat.go: the four Attack* entry points, the round     *)
(* resolver calculateCombat, GetWaitMessages, hitChance, Hits and Crits.   *)
(*                                                                         *)
(* One resolver call is modelled as a process whose position is pc:        *)
(*   "idle"   no call in flight (attackResult is the last returned value)  *)
(*   "cycle"  at the head of the `for i < attackCount` loop (line 194)     *)
(*   "attack" inside the weapon loop / per-weapon attack loop (261, 294)   *)
(* Random draws (util.Rand, util.RollDice) are nondeterministic choices.   *)
(* Rendered text is modelled as a record of the template chosen and the    *)
(* token values substituted; the damage, uses-left, exit and entrance      *)
(* tokens are not tracked.                                                 *)
(***************************************************************************)
EXTENDS Integers, Sequences, FiniteSets, TLC

\* ---------------------------------------------------------------- bounds
MaxCalls == 2        \* resolver calls made in one behaviour
MaxDualWield == 4    \* highest dual-wield tier tried
MaxProbeSpeed == 6   \* direct calls of Hits try every speed up to this one

\* ------------------------------------------------------ program constants
User == "user"
Mob == "mob"
DefaultAttack == "DefaultAttack"
BackStab == "BackStab"
Hidden == "Hidden"
Accuracy == "Accuracy"
Blink == "Blink"
Weapon == "weapon"
Claws == "claws"
Generic == "generic"

\* ------------------------------------------------- collaborators (data)
\* Item registry: ItemId 0 is the zero-value item (nothing equipped).
ItemIds == 0..4
GetSpec(id) ==
  CASE id = 1 -> [Type |-> Weapon, Subtype |-> "slashing", Name |-> "sword"]
    [] id = 2 -> [Type |-> Weapon, Subtype |-> "stabbing", Name |-> "dagger"]
    [] id = 3 -> [Type |-> Weapon, Subtype |-> Claws, Name |-> "claws"]
    [] id = 4 -> [Type |-> "offhand", Subtype |-> Generic, Name |-> "shield"]
    [] OTHER  -> [Type |-> "", Subtype |-> Generic, Name |-> ""]

DisplayName(id) == GetSpec(id).Name

\* attacks, dCount, dSides, dBonus of an equipped item
GetDiceRoll(id) ==
  CASE id = 2 -> [attacks |-> 2, dCount |-> 1, dSides |-> 1, dBonus |-> 1]
    [] id = 3 -> [attacks |-> 1, dCount |-> 2, dSides |-> 1, dBonus |-> 0]
    [] OTHER  -> [attacks |-> 1, dCount |-> 1, dSides |-> 2, dBonus |-> 1]

\* racial unarmed dice and name
GetDefaultDiceRoll == [attacks |-> 1, dCount |-> 1, dSides |-> 2, dBonus |-> 0]
UnarmedName == "fists"

\* util.Rand(n): an integer in [0, n); 0 when n < 1.  Only the values of
\* RollValues are tried.
RollValues == {0, 50, 80, 95, 150}
Rand(n) == IF n < 1 THEN {0} ELSE {r \in RollValues : r < n}

\* util.RollDice(count, sides): the sum of count draws in [1, sides]
RollDice(dCount, dSides) == dCount..(dCount * dSides)

\* ------------------------------------------------------- pure functions
CeilDiv25_Floor(d) == d \div 25

\* int(math.Ceil(float64(d) / 25)) for an integer d
CeilDiv25(d) == IF d > 0 THEN (d + 24) \div 25 ELSE -((-d) \div 25)

AttackCountOf(sourceSpeed, targetSpeed) ==
  LET n == CeilDiv25(sourceSpeed - targetSpeed) IN IF n < 1 THEN 1 ELSE n

hitChance_DefenderShare(attackSpd, defendSpd) ==
  LET atkPlusDef == IF attackSpd + defendSpd < 1 THEN 1 ELSE attackSpd + defendSpd
  IN  30 + (70 * defendSpd) \div atkPlusDef

\* 30 + int(float64(attackSpd)/atkPlusDef*70).  The float product equals the
\* exact quotient truncated, except when attackSpd/atkPlusDef = 47/70, where
\* the product is 46.99999999999999 and truncates to 46.
hitChance(attackSpd, defendSpd) ==
  LET atkPlusDef == IF attackSpd + defendSpd < 1 THEN 1 ELSE attackSpd + defendSpd
      exact == 70 * attackSpd
      q == IF exact >= 0 THEN exact \div atkPlusDef ELSE -((-exact) \div atkPlusDef)
  IN  30 + (IF exact = 47 * atkPlusDef THEN 46 ELSE q)

ToHit_NoCeiling(attackSpd, defendSpd, hitModifier) ==
  LET toHit == hitChance(attackSpd, defendSpd) + hitModifier
  IN  IF toHit < 5 THEN 5 ELSE toHit

\* the percentage Hits compares its roll against
ToHit(attackSpd, defendSpd, hitModifier) ==
  LET toHit == hitChance(attackSpd, defendSpd) + hitModifier
  IN  IF toHit < 5 THEN 5 ELSE IF toHit > 95 THEN 95 ELSE toHit

Hits(attackSpd, defendSpd, hitModifier, hitRoll) ==
  hitRoll < ToHit(attackSpd, defendSpd, hitModifier)

\* int(math.Round(n / d)) for d >= 1 (half rounds away from zero)
RoundDiv(n, d) ==
  IF n >= 0 THEN (2 * n + d) \div (2 * d) ELSE -((2 * (-n) + d) \div (2 * d))

\* Go's integer `/ 2`: truncation toward zero
Half(c) == IF c >= 0 THEN c \div 2 ELSE -((-c) \div 2)

HasBuffFlag(char, flag) == flag \in char.Buffs

CritChance_NoFloor(sourceChar, targetChar) ==
  LET diff == sourceChar.Level - targetChar.Level
      levelDiff == IF diff < 1 THEN 1 ELSE diff
      c0 == 5 + RoundDiv(sourceChar.Strength + sourceChar.Speed, levelDiff)
      c1 == IF HasBuffFlag(sourceChar, Accuracy) THEN c0 * 2 ELSE c0
  IN  IF HasBuffFlag(targetChar, Blink) THEN Half(c1) ELSE c1

CritChance(sourceChar, targetChar) ==
  LET diff == sourceChar.Level - targetChar.Level
      levelDiff == IF diff < 1 THEN 1 ELSE diff
      c0 == 5 + RoundDiv(sourceChar.Strength + sourceChar.Speed, levelDiff)
      c1 == IF HasBuffFlag(sourceChar, Accuracy) THEN c0 * 2 ELSE c0
      c2 == IF HasBuffFlag(targetChar, Blink) THEN Half(c1) ELSE c1
  IN  IF c2 < 5 THEN 5 ELSE c2

Crits(sourceChar, targetChar, critRoll) == critRoll < CritChance(sourceChar, targetChar)

\* int(math.Round((float64(defenseAmt) / 100) * float64(damage))), damage >= 0
\* (exact for the damages that occur here, all below 25)
Reduction(defenseAmt, damage) == (2 * defenseAmt * damage + 100) \div 200

\* ------------------------------------------------------------- messages
\* An ItemMessage: the template it was taken from (bundle phase and weapon
\* subtype, together/separate variant, audience) and the token values
\* substituted so far ("" = token still unfilled).
NoMsg == [phase |-> "", subtype |-> "", variant |-> "", audience |-> "",
          ItemName |-> "", Source |-> "", SourceType |-> "",
          Target |-> "", TargetType |-> "",
          crit |-> FALSE, prefix |-> FALSE, rendered |-> FALSE]

\* msgs.<variant>.<audience>.Get() of the bundle for (phase, subtype)
Template(phase, subtype, variant, audience) ==
  [NoMsg EXCEPT !.phase = phase, !.subtype = subtype,
                !.variant = variant, !.audience = audience]

IsEmptyMsg(m) == m.audience = ""

\* ItemMessage.SetTokenValue: replaces the token where the text still has it
SetTokenValue(m, tokenName, tokenValue) ==
  IF m[tokenName] = "" THEN [m EXCEPT ![tokenName] = tokenValue] ELSE m

TokenNames == {"ItemName", "Source", "SourceType", "Target", "TargetType"}

\* the `for tokenName, tokenValue := range tokenReplacements` loop on one message
FillTokens(m, tokenReplacements) ==
  [f \in DOMAIN m |->
     IF f \in TokenNames /\ m[f] = "" THEN tokenReplacements[f] ELSE m[f]]

\* templates.AnsiParse: the external renderer
AnsiParse(m) == [m EXCEPT !.rendered = TRUE]

\* the `*** ... ***` decoration and the backstab prefix
CritWrap(m) == [m EXCEPT !.crit = TRUE]
WithPrefix(m) == [m EXCEPT !.prefix = TRUE]

\* Character.Name and Character.GetMobName(0).String()
CharName(side) == IF side = "source" THEN "Atk" ELSE "Def"
GetMobName(side) == IF side = "source" THEN "mob:Atk" ELSE "mob:Def"

\* AttackResult{} and its Send* methods
EmptyResult ==
  [DamageToTarget |-> 0, DamageToTargetReduction |-> 0,
   DamageToSource |-> 0, DamageToSourceReduction |-> 0,
   Hit |-> FALSE, Crit |-> FALSE,
   MessagesToSource |-> <<>>, MessagesToTarget |-> <<>>,
   MessagesToSourceRoom |-> <<>>, MessagesToTargetRoom |-> <<>>]

SendToSource(r, m) == [r EXCEPT !.MessagesToSource = Append(@, m)]
SendToTarget(r, m) == [r EXCEPT !.MessagesToTarget = Append(@, m)]
SendToSourceRoom(r, m) == [r EXCEPT !.MessagesToSourceRoom = Append(@, m)]
SendToTargetRoom(r, m) == [r EXCEPT !.MessagesToTargetRoom = Append(@, m)]

\* ---------------------------------------------------------------- state
VARIABLES
  atkChar,        \* the attacker's live character record (user.Character / mob.Character)
  defChar,        \* the defender's live character record
  DamageTaken,    \* the defending mob's ledger: user id -> damage credited
  pc,             \* position of the resolver call in flight
  entry,          \* the entry point that made the call in flight / the last call
  sourceChar,     \* calculateCombat's by-value copy of the attacker
  targetChar,     \* calculateCombat's by-value copy of the defender
  sourceType,     \* role tags passed to the resolver
  targetType,
  attackCount,    \* number of attack cycles of this call
  i,              \* attack cycle index
  attackWeapons,  \* the weapons active in the current cycle
  w,              \* position in attackWeapons (1-based)
  j,              \* attack index of the current weapon
  attackMessagePrefix,  \* TRUE when the backstab prefix is set
  attackResult,   \* the AttackResult being built / last returned
  last,           \* locals of the last discrete attack
  callsLeft,      \* Attack* calls still to be made in this behaviour
  entryAggro,     \* the attacker's live targeting mode when the last call was made
  bothRoll,       \* the `Both Weapons` draw of the current cycle (NoRoll: none drawn)
  handsUsed,      \* the hands that made a discrete attack in this call
  probe           \* a direct call of Hits: arguments, threshold, roll, result

vars == <<atkChar, defChar, DamageTaken, pc, entry, sourceChar, targetChar,
          sourceType, targetType, attackCount, i, attackWeapons, w, j,
          attackMessagePrefix, attackResult, last, callsLeft, entryAggro,
          bothRoll, handsUsed, probe>>

frame == <<sourceChar, targetChar, sourceType, targetType, attackCount, i,
           attackWeapons, w, j, attackMessagePrefix, bothRoll>>

live == <<atkChar, defChar, DamageTaken>>

UserIdOfAttacker == 1     \* user.UserId of an attacking player
CharmerIds == {0, 7}      \* GetCharmedUserId() of an attacking mob (0: not charmed)

NoRoll == -1

NoProbe == [pc |-> "idle", attackSpd |-> 0, defendSpd |-> 0, hitModifier |-> 0,
            chance |-> 0, toHit |-> 0, hitRoll |-> 0, hit |-> FALSE]

NoAttack == [hand |-> "", ItemId |-> 0, cycle |-> 0, nWeapons |-> 0,
             hitRoll |-> 0, toHit |-> 0, hit |-> FALSE,
             critRolled |-> FALSE, critBonus |-> FALSE,
             pre |-> 0, red |-> 0, dmg |-> 0, srcPre |-> 0, srcRed |-> 0]

\* ------------------------------------------------------ initial records
\* The configurations tried: a character record is built from the fields the
\* resolver reads; everything else is fixed.
Character(kind, speed, level, loadout, tier, aggro, buffs, defense, room, charmer) ==
  [Kind |-> kind, Speed |-> speed, Strength |-> 10, Level |-> level,
   Weapon |-> loadout[1], Offhand |-> loadout[2], DualWield |-> tier,
   Defense |-> defense, Aggro |-> aggro, Buffs |-> buffs, RoomId |-> room,
   Health |-> 100, CharmedUserId |-> charmer]

Kinds == {User, Mob}
SourceSpeeds == {40, 50, 60, 75, 76, 100, 101}
TargetSpeeds == {50, 100}
Unarmed == <<0, 0>>
TwoHanded == {<<1, 2>>, <<3, 3>>, <<1, 4>>, <<0, 2>>}

TargetAt(kind, speed, defense, room) ==
  Character(kind, speed, 5, Unarmed, 0, DefaultAttack, {}, defense, room, 0)

Target(kind, defense, room) == TargetAt(kind, 50, defense, room)

\* pacing and opening strike: unarmed attackers of every speed and mode
PaceScenarios ==
  { <<Character(k, s, 5, Unarmed, 0, a, {}, 0, 1, 0), TargetAt(kd, st, 0, 1)>> :
      k \in Kinds, kd \in Kinds, s \in SourceSpeeds, st \in TargetSpeeds,
      a \in {DefaultAttack, BackStab} }

\* weapon selection: every loadout at every dual-wield tier, one or two cycles
DualScenarios ==
  { <<Character(User, s, 5, l, t, DefaultAttack, {}, 0, 1, 0), Target(Mob, 0, 1)>> :
      s \in {60, 76}, l \in TwoHanded, t \in 0..MaxDualWield }

\* mitigation: defense ratings on both sides, level 10 against level 5
DefenseScenarios ==
  { <<Character(User, s, 10, Unarmed, 0, a, {}, ds, 1, 0), Target(Mob, dt, 1)>> :
      s \in {60, 76}, a \in {DefaultAttack, BackStab}, ds \in {0, 51}, dt \in {51, 151} }

\* narration: hidden attackers, rooms, charmed mobs
CharmersOf(kind) == IF kind = Mob THEN CharmerIds ELSE {0}

NarrationScenarios ==
  UNION { { <<Character(k, 60, 5, l, 3, DefaultAttack, b, 0, 1, c), Target(kd, 0, r)>> :
              kd \in Kinds, l \in {Unarmed, <<1, 2>>}, b \in {{}, {Hidden}},
              r \in {1, 2}, c \in CharmersOf(k) } : k \in Kinds }

Scenarios == PaceScenarios \cup DualScenarios \cup DefenseScenarios \cup NarrationScenarios

InitFrom(S, n) ==
  /\ \E sc \in S : atkChar = sc[1] /\ defChar = sc[2]
  /\ DamageTaken = <<>>
  /\ pc = "idle"
  /\ entry = ""
  /\ sourceChar = atkChar
  /\ targetChar = defChar
  /\ sourceType = ""
  /\ targetType = ""
  /\ attackCount = 0
  /\ i = 0
  /\ attackWeapons = <<>>
  /\ w = 0
  /\ j = 0
  /\ attackMessagePrefix = FALSE
  /\ attackResult = EmptyResult
  /\ last = NoAttack
  /\ callsLeft = n
  /\ entryAggro = ""
  /\ bothRoll = NoRoll
  /\ handsUsed = {}
  /\ probe = NoProbe

\* every scenario, one resolver call
Init == InitFrom(Scenarios, 1)

\* ------------------------------------------------- character operations
\* Character.SetAggro(userId, mobInstanceId, type), on the record it is called on
SetAggro(char, aggroType) == [char EXCEPT !.Aggro = aggroType]

\* Character.ApplyHealthChange(delta)
ApplyHealthChange(char, delta) == [char EXCEPT !.Health = @ + delta]

\* `if _, ok := m[id]; !ok { m[id] = 0 }; m[id] += amount`
Credit(ledger, id, amount) ==
  IF id \in DOMAIN ledger THEN [ledger EXCEPT ![id] = @ + amount]
  ELSE ledger @@ (id :> (0 + amount))

\* --------------------------------------------------- weapon selection
\* lines 198-215: main hand, weapon-type off-hand, else the empty hands
Candidates(char) ==
  LET main == IF char.Weapon > 0
              THEN <<[ItemId |-> char.Weapon, hand |-> "Weapon"]>> ELSE <<>>
      off  == IF char.Offhand > 0 /\ GetSpec(char.Offhand).Type = Weapon
              THEN <<[ItemId |-> char.Offhand, hand |-> "Offhand"]>> ELSE <<>>
      both == main \o off
  IN  IF Len(both) = 0 THEN <<[ItemId |-> 0, hand |-> "hands"]>> ELSE both

MaxWeaponsOf_NoRoll(char, dualWieldLevel, roll) ==
  IF dualWieldLevel >= 2 THEN 2
  ELSE IF GetSpec(char.Weapon).Subtype = Claws /\ GetSpec(char.Offhand).Subtype = Claws
  THEN 2 ELSE 1

\* lines 219-242; roll is the tier-2 draw
MaxWeaponsOf(char, dualWieldLevel, roll) ==
  LET m1 == 1
      m2 == IF dualWieldLevel = 2 /\ roll < 50 THEN 2 ELSE m1
      m3 == IF dualWieldLevel >= 3 THEN 2 ELSE m2
  IN  IF GetSpec(char.Weapon).Subtype = Claws /\ GetSpec(char.Offhand).Subtype = Claws
      THEN 2 ELSE m3

RemoveAt(s, k) == SubSeq(s, 1, k - 1) \o SubSeq(s, k + 1, Len(s))

\* lines 244-248: every list the random-removal loop can end with
RECURSIVE RemoveRandom(_, _)
RemoveRandom(weapons, maxWeapons) ==
  IF Len(weapons) > maxWeapons
  THEN UNION { RemoveRandom(RemoveAt(weapons, rnd + 1), maxWeapons) :
                 rnd \in 0..(Len(weapons) - 1) }
  ELSE {weapons}

\* line 226: the `Both Weapons` roll is drawn only at tier 2 with two candidates
BothRolls(char) ==
  IF Len(Candidates(char)) > 1 /\ char.DualWield = 2 THEN Rand(100) ELSE {NoRoll}

\* lines 217-250: the weapon lists one cycle can end up with, given the roll
SelectWeapons(char, roll) ==
  LET cands == Candidates(char)
      dualWieldLevel == char.DualWield
  IN  IF Len(cands) > 1
      THEN RemoveRandom(cands, MaxWeaponsOf(char, dualWieldLevel, roll))
      ELSE {cands}

\* lines 263-270
Penalty(nWeapons, dualWieldLevel) ==
  IF nWeapons > 1 THEN (IF dualWieldLevel < 4 THEN 35 ELSE 25) ELSE 0

\* lines 278-289
DiceOf(weapon) ==
  IF weapon.ItemId > 0 THEN GetDiceRoll(weapon.ItemId) ELSE GetDefaultDiceRoll
WeaponNameOf(weapon) ==
  IF weapon.ItemId > 0 THEN DisplayName(weapon.ItemId) ELSE UnarmedName
WeaponSubTypeOf(weapon) ==
  IF weapon.ItemId > 0 THEN GetSpec(weapon.ItemId).Subtype ELSE Generic

TargetDamage_IgnoresMiss(hit, crit, dmgRoll, dice) ==
  dmgRoll + dice.dBonus
  + (IF crit THEN dice.dCount * dice.dSides + dice.dBonus ELSE 0)

\* lines 302-311: attackTargetDamage before mitigation
TargetDamage(hit, crit, dmgRoll, dice) ==
  IF hit
  THEN dmgRoll + dice.dBonus
       + (IF crit THEN dice.dCount * dice.dSides + dice.dBonus ELSE 0)
  ELSE 0

Mitigate_FlatAmount(defenseAmt, damage) ==
  IF defenseAmt > 0 THEN defenseAmt ELSE 0

\* lines 313-317 and 319-323
Mitigate(defenseAmt, damage) ==
  IF defenseAmt > 0 THEN Reduction(defenseAmt, damage) ELSE 0

\* ---------------------------------------------------- narrative assembly
TypeName(t) == IF t = User THEN "username" ELSE "mobname"

\* lines 332-342 and 379-389 (95-105 and 142-152 in GetWaitMessages)
TokenReplacements(srcChar, srcType, tgtType, weaponName) ==
  [ItemName   |-> IF srcChar.Weapon > 0 THEN DisplayName(srcChar.Weapon) ELSE weaponName,
   Source     |-> IF srcType = Mob THEN GetMobName("source") ELSE CharName("source"),
   SourceType |-> TypeName(srcType),
   Target     |-> IF tgtType = Mob THEN GetMobName("target") ELSE CharName("target"),
   TargetType |-> TypeName(tgtType)]

PickTemplates_AlwaysSeparate(phase, subtype, together) ==
  [toAttacker     |-> Template(phase, subtype, "Separate", "ToAttacker"),
   toDefender     |-> Template(phase, subtype, "Separate", "ToDefender"),
   toAttackerRoom |-> Template(phase, subtype, "Separate", "ToAttackerRoom"),
   toDefenderRoom |-> Template(phase, subtype, "Separate", "ToDefenderRoom")]

\* lines 344-357 (107-119): the four templates picked from the bundle
PickTemplates(phase, subtype, together) ==
  IF together
  THEN [toAttacker     |-> Template(phase, subtype, "Together", "ToAttacker"),
        toDefender     |-> Template(phase, subtype, "Together", "ToDefender"),
        toAttackerRoom |-> Template(phase, subtype, "Together", "ToRoom"),
        toDefenderRoom |-> NoMsg]
  ELSE [toAttacker     |-> Template(phase, subtype, "Separate", "ToAttacker"),
        toDefender     |-> Template(phase, subtype, "Separate", "ToDefender"),
        toAttackerRoom |-> Template(phase, subtype, "Separate", "ToAttackerRoom"),
        toDefenderRoom |-> Template(phase, subtype, "Separate", "ToDefenderRoom")]

Decorate(m, crit, prefix) ==
  LET c == IF crit THEN CritWrap(m) ELSE m
  IN  IF prefix THEN WithPrefix(c) ELSE c

\* lines 328-416: the four messages of one discrete attack, before rendering
AttackMessages(srcChar, tgtChar, srcType, tgtType, weapon, crit, prefix) ==
  LET t    == PickTemplates("attack", WeaponSubTypeOf(weapon),
                            srcChar.RoomId = tgtChar.RoomId)
      reps == TokenReplacements(srcChar, srcType, tgtType, WeaponNameOf(weapon))
      dr   == IF ~IsEmptyMsg(t.toDefenderRoom)
              THEN FillTokens(t.toDefenderRoom, reps) ELSE t.toDefenderRoom
  IN  [toAttacker     |-> Decorate(FillTokens(t.toAttacker, reps), crit, prefix),
       toDefender     |-> Decorate(FillTokens(t.toDefender, reps), crit, prefix),
       toAttackerRoom |-> Decorate(FillTokens(t.toAttackerRoom, reps), crit, prefix),
       toDefenderRoom |-> IF ~IsEmptyMsg(dr) THEN Decorate(dr, crit, prefix) ELSE dr]

SendAttack_SkipsSource(result, srcChar, tgtChar, tgtType, m) ==
  LET r2 == SendToTarget(result, AnsiParse(m.toDefender))
      r3 == SendToSourceRoom(r2, AnsiParse(m.toAttackerRoom))
  IN  IF ~IsEmptyMsg(m.toDefenderRoom)
      THEN SendToTargetRoom(r3, AnsiParse(m.toDefenderRoom))
      ELSE r3

\* lines 418-458: the four sends of one discrete attack
SendAttack(result, srcChar, tgtChar, tgtType, m) ==
  LET r1 == SendToSource(result, AnsiParse(m.toAttacker))
      r2 == SendToTarget(r1, AnsiParse(m.toDefender))
      r3 == SendToSourceRoom(r2, AnsiParse(
              SetTokenValue(SetTokenValue(m.toAttackerRoom, "Target", CharName("target")),
                            "TargetType", tgtType)))
  IN  IF ~IsEmptyMsg(m.toDefenderRoom)
      THEN SendToTargetRoom(r3, AnsiParse(
              SetTokenValue(SetTokenValue(m.toDefenderRoom, "Target", CharName("target")),
                            "TargetType", tgtType)))
      ELSE r3

\* lines 91-161: the four messages of GetWaitMessages.  In the token loop the
\* to-defender-room message, when not empty, is re-assigned from the
\* to-attacker-room message at every token (line 159).
WaitMessages(stepType, srcChar, tgtChar, srcType, tgtType) ==
  LET t    == PickTemplates(stepType, GetSpec(srcChar.Weapon).Subtype,
                            srcChar.RoomId = tgtChar.RoomId)
      reps == TokenReplacements(srcChar, srcType, tgtType, UnarmedName)
      ar   == FillTokens(t.toAttackerRoom, reps)
  IN  [toAttacker     |-> FillTokens(t.toAttacker, reps),
       toDefender     |-> FillTokens(t.toDefender, reps),
       toAttackerRoom |-> ar,
       toDefenderRoom |-> IF ~IsEmptyMsg(t.toDefenderRoom) THEN ar ELSE t.toDefenderRoom]

\* lines 163-181: the sends of GetWaitMessages
SendWait(srcChar, m) ==
  LET r1 == IF ~IsEmptyMsg(m.toAttacker)
            THEN SendToSource(EmptyResult, AnsiParse(m.toAttacker)) ELSE EmptyResult
      r2 == IF ~IsEmptyMsg(m.toDefender)
            THEN SendToTarget(r1, AnsiParse(m.toDefender)) ELSE r1
      r3 == IF ~IsEmptyMsg(m.toAttackerRoom)
            THEN SendToSourceRoom(r2, AnsiParse(m.toAttackerRoom)) ELSE r2
      r4 == IF ~IsEmptyMsg(m.toDefenderRoom)
            THEN SendToTargetRoom(r3, AnsiParse(m.toDefenderRoom)) ELSE r3
  IN  IF ~HasBuffFlag(srcChar, Hidden) THEN r4 ELSE r1

Accumulate_KeepsLast(result, dmg, red, srcDmg, srcRed) ==
  [result EXCEPT !.DamageToTarget = dmg,
                 !.DamageToTargetReduction = red,
                 !.DamageToSource = srcDmg,
                 !.DamageToSourceReduction = srcRed]

\* lines 460-464: the totals of the round
Accumulate(result, dmg, red, srcDmg, srcRed) ==
  [result EXCEPT !.DamageToTarget = @ + dmg,
                 !.DamageToTargetReduction = @ + red,
                 !.DamageToSource = @ + srcDmg,
                 !.DamageToSourceReduction = @ + srcRed]

\* line 304: RollDice is called only on a hit
DamageRolls(srcChar, tgtChar, penalty, hitRoll, dice) ==
  IF Hits(srcChar.Speed, tgtChar.Speed, penalty, hitRoll)
  THEN RollDice(dice.dCount, dice.dSides) ELSE {0}

\* line 306: Crits is called only on a hit with the round's Crit flag unset
CritRolls(srcChar, tgtChar, penalty, hitRoll, critFlag) ==
  IF Hits(srcChar.Speed, tgtChar.Speed, penalty, hitRoll) /\ ~critFlag
  THEN Rand(100) ELSE {0}

\* --------------------------------------------------------------- actions
\* The call of calculateCombat made by an entry point: the characters are
\* passed by value (`*user.Character`, `mob.Character`), lines 186-193.
Call(name, srcType, tgtType) ==
  /\ pc = "idle"
  /\ callsLeft > 0
  /\ pc' = "cycle"
  /\ entry' = name
  /\ callsLeft' = callsLeft - 1
  /\ entryAggro' = atkChar.Aggro
  /\ sourceChar' = atkChar
  /\ targetChar' = defChar
  /\ sourceType' = srcType
  /\ targetType' = tgtType
  /\ attackResult' = EmptyResult
  /\ attackCount' = AttackCountOf(atkChar.Speed, defChar.Speed)
  /\ i' = 0
  /\ attackWeapons' = <<>>
  /\ w' = 0
  /\ j' = 0
  /\ attackMessagePrefix' = FALSE
  /\ last' = NoAttack
  /\ bothRoll' = NoRoll
  /\ handsUsed' = {}
  /\ UNCHANGED <<live, probe>>

AttackPlayerVsMob ==
  /\ atkChar.Kind = User /\ defChar.Kind = Mob
  /\ Call("AttackPlayerVsMob", User, Mob)

AttackPlayerVsPlayer ==
  /\ atkChar.Kind = User /\ defChar.Kind = User
  /\ Call("AttackPlayerVsPlayer", User, User)

AttackMobVsPlayer ==
  /\ atkChar.Kind = Mob /\ defChar.Kind = User
  /\ Call("AttackMobVsPlayer", Mob, User)

AttackMobVsMob ==
  /\ atkChar.Kind = Mob /\ defChar.Kind = Mob
  /\ Call("AttackMobVsMob", Mob, User)

\* lines 194-259: head of one attack cycle: weapon selection, backstab check
BeginCycle ==
  /\ pc = "cycle"
  /\ i < attackCount
  /\ \E roll \in BothRolls(sourceChar) :
       \E weapons \in SelectWeapons(sourceChar, roll) :
          /\ attackWeapons' = weapons
          /\ bothRoll' = roll
  /\ IF sourceChar.Aggro = BackStab
     THEN /\ attackResult' = [attackResult EXCEPT !.Crit = TRUE]
          /\ attackMessagePrefix' = TRUE
          /\ sourceChar' = SetAggro(sourceChar, DefaultAttack)
     ELSE /\ attackMessagePrefix' = FALSE
          /\ UNCHANGED <<attackResult, sourceChar>>
  /\ w' = 1
  /\ j' = 0
  /\ pc' = "attack"
  /\ UNCHANGED <<live, entry, targetChar, sourceType, targetType, attackCount, i,
                 last, callsLeft, entryAggro, handsUsed, probe>>

\* lines 294-465: one discrete attack of the current weapon
DiscreteAttack ==
  /\ pc = "attack"
  /\ w <= Len(attackWeapons)
  /\ LET weapon  == attackWeapons[w]
         dice    == DiceOf(weapon)
         penalty == Penalty(Len(attackWeapons), sourceChar.DualWield)
     IN
     /\ j < dice.attacks
     /\ \E hitRoll \in Rand(100), defenseAmt \in Rand(targetChar.Defense),
           srcDefenseAmt \in Rand(sourceChar.Defense) :
        \E dmgRoll \in DamageRolls(sourceChar, targetChar, penalty, hitRoll, dice),
           critRoll \in CritRolls(sourceChar, targetChar, penalty, hitRoll, attackResult.Crit) :
          LET hit     == Hits(sourceChar.Speed, targetChar.Speed, penalty, hitRoll)
              rolled  == hit /\ ~attackResult.Crit
              crit    == hit /\ (attackResult.Crit \/ Crits(sourceChar, targetChar, critRoll))
              pre     == TargetDamage(hit, crit, dmgRoll, dice)
              red     == Mitigate(defenseAmt, pre)
              dmg     == pre - red
              srcPre  == 0
              srcRed  == Mitigate(srcDefenseAmt, srcPre)
              srcDmg  == srcPre - srcRed
              r0      == [attackResult EXCEPT !.Hit = @ \/ hit, !.Crit = @ \/ crit]
              msgs    == AttackMessages(sourceChar, targetChar, sourceType, targetType,
                                        weapon, r0.Crit, attackMessagePrefix)
              r1      == SendAttack(r0, sourceChar, targetChar, targetType, msgs)
          IN
          /\ attackResult' = Accumulate(r1, dmg, red, srcDmg, srcRed)
          /\ last' = [hand |-> weapon.hand, ItemId |-> weapon.ItemId, cycle |-> i,
                      nWeapons |-> Len(attackWeapons),
                      hitRoll |-> hitRoll,
                      toHit |-> ToHit(sourceChar.Speed, targetChar.Speed, penalty),
                      hit |-> hit, critRolled |-> rolled, critBonus |-> crit,
                      pre |-> pre, red |-> red, dmg |-> dmg,
                      srcPre |-> srcPre, srcRed |-> srcRed]
  /\ j' = j + 1
  /\ handsUsed' = handsUsed \cup {attackWeapons[w].hand}
  /\ UNCHANGED <<live, pc, entry, sourceChar, targetChar, sourceType, targetType,
                 attackCount, i, attackWeapons, w, attackMessagePrefix, callsLeft,
                 entryAggro, bothRoll, probe>>

\* line 294 exit, line 261 next weapon
NextWeapon ==
  /\ pc = "attack"
  /\ w <= Len(attackWeapons)
  /\ j >= DiceOf(attackWeapons[w]).attacks
  /\ w' = w + 1
  /\ j' = 0
  /\ UNCHANGED <<live, pc, entry, sourceChar, targetChar, sourceType, targetType,
                 attackCount, i, attackWeapons, attackMessagePrefix, attackResult,
                 last, callsLeft, entryAggro, bothRoll, handsUsed, probe>>

\* line 261 exit, line 194 next cycle
NextCycle ==
  /\ pc = "attack"
  /\ w > Len(attackWeapons)
  /\ i' = i + 1
  /\ pc' = "cycle"
  /\ UNCHANGED <<live, entry, sourceChar, targetChar, sourceType, targetType,
                 attackCount, attackWeapons, w, j, attackMessagePrefix, attackResult,
                 last, callsLeft, entryAggro, bothRoll, handsUsed, probe>>

\* line 469 and the entry point's tail: health changes and the ledger
Return ==
  /\ pc = "cycle"
  /\ i >= attackCount
  /\ atkChar' = ApplyHealthChange(atkChar, attackResult.DamageToSource * (-1))
  /\ defChar' = ApplyHealthChange(defChar, attackResult.DamageToTarget * (-1))
  /\ DamageTaken' =
       IF entry = "AttackPlayerVsMob"
       THEN Credit(DamageTaken, UserIdOfAttacker, attackResult.DamageToTarget)
       ELSE IF entry = "AttackMobVsMob" /\ atkChar.CharmedUserId > 0
       THEN Credit(DamageTaken, atkChar.CharmedUserId, attackResult.DamageToTarget)
       ELSE DamageTaken
  /\ pc' = "idle"
  /\ UNCHANGED <<entry, frame, attackResult, last, callsLeft, entryAggro,
                 handsUsed, probe>>

\* GetWaitMessages(stepType, sourceChar, targetChar, sourceType, targetType),
\* called on the live records; the variables of the finished resolver call
\* are cleared
GetWaitMessages ==
  /\ pc = "idle"
  /\ \E stepType \in {"prepare", "wait"}, srcType \in {User, Mob}, tgtType \in {User, Mob} :
       /\ attackResult' =
            SendWait(atkChar, WaitMessages(stepType, atkChar, defChar, srcType, tgtType))
       /\ sourceType' = srcType
       /\ targetType' = tgtType
  /\ entry' = "GetWaitMessages"
  /\ sourceChar' = atkChar
  /\ targetChar' = defChar
  /\ attackCount' = 0
  /\ i' = 0
  /\ attackWeapons' = <<>>
  /\ w' = 0
  /\ j' = 0
  /\ attackMessagePrefix' = FALSE
  /\ last' = NoAttack
  /\ bothRoll' = NoRoll
  /\ handsUsed' = {}
  /\ UNCHANGED <<live, pc, callsLeft, entryAggro, probe>>

\* A direct call of the exported Hits(attackSpd, defendSpd, hitModifier):
\* lines 483-498 compute the threshold, lines 499-503 draw and compare.
ProbeSpeeds == (0..MaxProbeSpeed) \cup {22, 23, 24, 46, 47, 48, 50, 100, 150}
ProbeModifiers == {-200, -35, -25, 0, 25, 35, 200}

HitsBegin ==
  /\ probe.pc = "idle"
  /\ \E a \in ProbeSpeeds, d \in ProbeSpeeds, m \in ProbeModifiers :
       probe' = [pc |-> "roll", attackSpd |-> a, defendSpd |-> d, hitModifier |-> m,
                 chance |-> hitChance(a, d), toHit |-> ToHit(a, d, m),
                 hitRoll |-> 0, hit |-> FALSE]
  /\ UNCHANGED <<live, pc, entry, frame, attackResult, last, callsLeft, entryAggro,
                 handsUsed>>

HitsRoll ==
  /\ probe.pc = "roll"
  /\ \E hitRoll \in 0..99 :
       probe' = [probe EXCEPT !.pc = "done", !.hitRoll = hitRoll,
                   !.hit = Hits(probe.attackSpd, probe.defendSpd, probe.hitModifier, hitRoll)]
  /\ UNCHANGED <<live, pc, entry, frame, attackResult, last, callsLeft, entryAggro,
                 handsUsed>>

HitsDone ==
  /\ probe.pc = "done"
  /\ probe' = NoProbe
  /\ UNCHANGED <<live, pc, entry, frame, attackResult, last, callsLeft, entryAggro,
                 handsUsed>>

Next ==
  \/ AttackPlayerVsMob
  \/ AttackPlayerVsPlayer
  \/ AttackMobVsPlayer
  \/ AttackMobVsMob
  \/ BeginCycle
  \/ DiscreteAttack
  \/ NextWeapon
  \/ NextCycle
  \/ Return
  \/ GetWaitMessages

Spec == Init /\ [][Next]_vars

\* A resolver call runs to its return without waiting on anything: its steps
\* are taken as long as they are enabled.
ResolverStep ==
  \/ BeginCycle
  \/ DiscreteAttack
  \/ NextWeapon
  \/ NextCycle
  \/ Return

SpecFair == Init /\ [][Next]_vars /\ WF_vars(ResolverStep)

\* repeated calls on the same pair of records
RepeatScenarios ==
  { sc \in PaceScenarios \cup DefenseScenarios :
      sc[1].Speed \in {60, 76} /\ sc[2].Speed = 50 }

InitRepeat == InitFrom(RepeatScenarios, MaxCalls)

SpecRepeat == InitRepeat /\ [][Next]_vars

\* direct calls of Hits, no resolver call
InitHits == InitFrom({<<Character(User, 60, 5, Unarmed, 0, DefaultAttack, {}, 0, 1, 0),
                        Target(Mob, 0, 1)>>}, 0)

NextHits ==
  \/ HitsBegin
  \/ HitsRoll
  \/ HitsDone

SpecHits == InitHits /\ [][NextHits]_vars

\* A direct call of the exported Crits(sourceChar, targetChar): lines 509-526
\* compute the threshold, lines 528-532 draw and compare.  The same probe
\* variable holds the call.
ProbeLevels == {1, 5, 6, 10}
ProbeStrengths == {-20, 0, 3, 20, 45}
ProbeCritSpeeds == {0, 30, 50}
ProbeFlags == {{}, {Accuracy}, {Blink}, {Accuracy, Blink}}

CritsBegin ==
  /\ probe.pc = "idle"
  /\ \E ls \in ProbeLevels, lt \in ProbeLevels, st \in ProbeStrengths,
        sp \in ProbeCritSpeeds, bs \in ProbeFlags, bt \in ProbeFlags :
       LET src == [Character(User, sp, ls, Unarmed, 0, DefaultAttack, bs, 0, 1, 0)
                     EXCEPT !.Strength = st]
           tgt == Character(Mob, 50, lt, Unarmed, 0, DefaultAttack, bt, 0, 1, 0)
       IN  probe' = [pc |-> "crit-roll", sourceChar |-> src, targetChar |-> tgt,
                     critChance |-> CritChance(src, tgt), critRoll |-> 0, crit |-> FALSE]
  /\ UNCHANGED <<live, pc, entry, frame, attackResult, last, callsLeft, entryAggro,
                 handsUsed>>

CritsRoll ==
  /\ probe.pc = "crit-roll"
  /\ \E critRoll \in 0..99 :
       probe' = [probe EXCEPT !.pc = "crit-done", !.critRoll = critRoll,
                   !.crit = Crits(probe.sourceChar, probe.targetChar, critRoll)]
  /\ UNCHANGED <<live, pc, entry, frame, attackResult, last, callsLeft, entryAggro,
                 handsUsed>>

CritsDone ==
  /\ probe.pc = "crit-done"
  /\ probe' = NoProbe
  /\ UNCHANGED <<live, pc, entry, frame, attackResult, last, callsLeft, entryAggro,
                 handsUsed>>

NextCrits ==
  \/ CritsBegin
  \/ CritsRoll
  \/ CritsDone

SpecCrits == InitHits /\ [][NextCrits]_vars

\* ================================================================ claims
AttackEntries == {"AttackPlayerVsMob", "AttackPlayerVsPlayer",
                  "AttackMobVsPlayer", "AttackMobVsMob"}

\* an Attack* entry point has returned and nothing was called since
Returned == pc = "idle" /\ entry \in AttackEntries

\* a discrete attack has been resolved in the current or last resolver call
Attacked == last.nWeapons > 0

TwoCandidates(char) == Len(Candidates(char)) = 2
BothClaws(char) ==
  GetSpec(char.Weapon).Subtype = Claws /\ GetSpec(char.Offhand).Subtype = Claws

ClampPct(x) == IF x < 5 THEN 5 ELSE IF x > 95 THEN 95 ELSE x

\* C1 (as stated): after an Attack* call made in opening-strike (BackStab)
\* mode has returned, the result is flagged Crit and the attacker's live
\* character record is back in DefaultAttack mode, so that a second call
\* does not start in BackStab mode again.
C1_OpeningStrikeConsumed ==
  (Returned /\ entryAggro = BackStab) =>
     (attackResult.Crit /\ atkChar.Aggro = DefaultAttack)

\* C2 (as stated): with a Hidden source only the to-source channel of a
\* result (of calculateCombat or of GetWaitMessages) ever holds a message.
C2_HiddenOnlyToSource ==
  (entry # "" /\ HasBuffFlag(atkChar, Hidden)) =>
     /\ attackResult.MessagesToTarget = <<>>
     /\ attackResult.MessagesToSourceRoom = <<>>
     /\ attackResult.MessagesToTargetRoom = <<>>

\* C3 (as stated): a round in which every hit roll fails returns
\* DamageToTarget = 0, Hit = FALSE and an empty to-target channel.
C3_MissRoundSilent ==
  (Returned /\ ~attackResult.Hit) =>
     (attackResult.DamageToTarget = 0 /\ attackResult.MessagesToTarget = <<>>)

\* C3 (amended): a discrete attack whose hit roll fails has pre-mitigation
\* damage 0 and leaves DamageToTarget as it was; for a source that is not
\* Hidden every discrete attack, hit or miss, appends one message to the
\* to-target channel; so a round in which every hit roll fails returns
\* DamageToTarget = 0 and Hit = FALSE, with a to-target channel that is not
\* empty once an attack was made.
C3_MissAddsNothing ==
  /\ [][j' = j + 1 =>
         /\ (~HasBuffFlag(sourceChar, Hidden) =>
               Len(attackResult'.MessagesToTarget)
                 = Len(attackResult.MessagesToTarget) + 1)
         /\ (~last'.hit =>
               /\ last'.pre = 0
               /\ attackResult'.DamageToTarget = attackResult.DamageToTarget)]_vars
  /\ []((Returned /\ ~attackResult.Hit) =>
          /\ attackResult.DamageToTarget = 0
          /\ (handsUsed # {} /\ ~HasBuffFlag(sourceChar, Hidden) =>
                attackResult.MessagesToTarget # <<>>))

C3_MissRoundNarrated ==
  /\ Returned
  /\ ~HasBuffFlag(sourceChar, Hidden)
  /\ ~attackResult.Hit
  /\ attackResult.DamageToTarget = 0
  /\ Len(attackResult.MessagesToTarget) >= 2

\* C4 (as stated): with two active weapons the threshold of every hit check
\* is clamp(hitChance - P, 5, 95), P = 35 below tier 4 and 25 from tier 4;
\* with one active weapon it is clamp(hitChance, 5, 95).
C4_PenaltyLowersThreshold ==
  Attacked =>
     last.toHit =
       ClampPct(hitChance(sourceChar.Speed, targetChar.Speed)
                - (IF last.nWeapons = 2
                   THEN (IF sourceChar.DualWield < 4 THEN 35 ELSE 25)
                   ELSE 0))

\* C5 (as stated): for every discrete attack the reduction is at most the
\* pre-reduction damage and the post-mitigation damage is >= 0, hence
\* DamageToTarget and DamageToTargetReduction are never negative.
C5_ReductionWithinDamage ==
  /\ last.red <= last.pre
  /\ last.dmg >= 0
  /\ attackResult.DamageToTarget >= 0
  /\ attackResult.DamageToTargetReduction >= 0

\* C6 (as stated): with two candidate weapons that are not both claws and
\* dual-wield tier 0 or 1, every discrete attack of one resolver call is
\* made with the same single weapon.
C6_OneWeaponForTheRound ==
  (entry \in AttackEntries /\ TwoCandidates(sourceChar) /\ ~BothClaws(sourceChar)
     /\ sourceChar.DualWield <= 1) =>
     Cardinality(handsUsed) <= 1

\* C7: in every attack cycle with two candidate weapons, the number of
\* active weapons after selection is 2 if both hands hold claws; otherwise 2
\* from tier 3, 2 at tier 2 when the draw is below 50 and 1 when it is not,
\* and 1 at tier 0 or 1.
C7_ActiveWeaponCount ==
  (pc = "attack" /\ TwoCandidates(sourceChar)) =>
     Len(attackWeapons) =
       (IF BothClaws(sourceChar) THEN 2
        ELSE IF sourceChar.DualWield >= 3 THEN 2
        ELSE IF sourceChar.DualWield = 2 THEN (IF bothRoll < 50 THEN 2 ELSE 1)
        ELSE 1)

C7_OneRemovedAtTierTwo ==
  /\ pc = "attack"
  /\ TwoCandidates(sourceChar)
  /\ sourceChar.DualWield = 2
  /\ bothRoll >= 50
  /\ Len(attackWeapons) = 1

\* the scenario of C8: unarmed, speed 100 against 50, tier 0, no status
\* effects, equal levels
C8_Scenario ==
  /\ entry \in AttackEntries
  /\ sourceChar.Speed = 100 /\ targetChar.Speed = 50
  /\ sourceChar.Weapon = 0 /\ sourceChar.Offhand = 0
  /\ sourceChar.DualWield = 0
  /\ sourceChar.Buffs = {} /\ targetChar.Buffs = {}
  /\ sourceChar.Level = targetChar.Level

\* C8 (as stated): in that scenario the round has exactly 1 attack cycle,
\* every hit check uses the threshold 76, a roll of 50 hits and 80 misses.
C8_OneCycleAt76 ==
  C8_Scenario =>
     /\ (pc = "idle" => i = 1)
     /\ (Attacked => /\ last.toHit = 76
                     /\ (last.hitRoll = 50 => last.hit)
                     /\ (last.hitRoll = 80 => ~last.hit))

\* C8 (amended): in that scenario the round has exactly 2 attack cycles
\* (ceil(50 / 25)); every hit check uses the threshold 76, a roll of 50 hits
\* and a roll of 80 misses.
C8_TwoCyclesAt76 ==
  C8_Scenario =>
     /\ attackCount = 2
     /\ (pc = "idle" => i = 2)
     /\ (Attacked => /\ last.toHit = 76
                     /\ (last.hitRoll = 50 => last.hit)
                     /\ (last.hitRoll = 80 => ~last.hit))

C8_SecondCycleMisses ==
  /\ C8_Scenario
  /\ pc = "idle"
  /\ i = 2
  /\ last.cycle = 1
  /\ last.hitRoll = 80
  /\ ~last.hit

\* C9: the number of attack cycles run by one resolver call is
\* max(1, ceil((sourceSpeed - targetSpeed) / 25)): 1 for a delta up to 25,
\* 2 for 26..50, 3 for 51..75; in general the least n >= 1 with 25 n >= delta.
C9_AttackCycles ==
  (entry \in AttackEntries) =>
     LET d == sourceChar.Speed - targetChar.Speed IN
     /\ attackCount >= 1
     /\ 25 * attackCount >= d
     /\ (attackCount > 1 => 25 * (attackCount - 1) < d)
     /\ (d <= 25 => attackCount = 1)
     /\ (d >= 26 /\ d <= 50 => attackCount = 2)
     /\ (d >= 51 /\ d <= 75 => attackCount = 3)
     /\ i <= attackCount
     /\ (pc = "idle" => i = attackCount)

C9_ThreeCyclesRun ==
  /\ Returned
  /\ sourceChar.Speed - targetChar.Speed = 51
  /\ i = 3

\* C10: over the speeds tried, hitChance does not decrease when the attack
\* speed grows nor increase when the defense speed grows; the percentage
\* Hits compares its roll against lies in [5, 95] for every modifier; and
\* Hits reports a hit exactly when the roll is below that percentage.
C10_HitChanceMonotoneAndClamped ==
  (probe.pc # "idle") =>
     /\ \A a \in ProbeSpeeds :
          a >= probe.attackSpd => hitChance(a, probe.defendSpd) >= probe.chance
     /\ \A d \in ProbeSpeeds :
          d >= probe.defendSpd => hitChance(probe.attackSpd, d) <= probe.chance
     /\ probe.toHit >= 5 /\ probe.toHit <= 95
     /\ (probe.pc = "done" => (probe.hit <=> probe.hitRoll < probe.toHit))

C10_MissAtTheCeiling ==
  /\ probe.pc = "done"
  /\ probe.chance + probe.hitModifier > 95
  /\ probe.toHit = 95
  /\ probe.hitRoll = 95
  /\ ~probe.hit

\* round(n / d) as the claim states it: the integer nearest to n / d, a half
\* going away from zero
NearestTo(n, d) ==
  CHOOSE r \in -200..200 :
    IF n >= 0 THEN 2 * d * r - d <= 2 * n /\ 2 * n < 2 * d * r + d
    ELSE 2 * d * r - d < 2 * n /\ 2 * n <= 2 * d * r + d

Max(a, b) == IF a >= b THEN a ELSE b

\* C11: the crit threshold used by Crits is max(5, c), where c starts as
\* 5 + round((strength + speed) / max(1, sourceLevel - targetLevel)), is
\* doubled if the source has accuracy and then integer-halved if the target
\* has blink; it is always >= 5; a crit occurs iff the roll in [0, 100) is
\* strictly below it; level 10 against 5, strength 20, speed 30, no buffs
\* gives 15.
C11_CritThreshold ==
  (probe.pc \in {"crit-roll", "crit-done"}) =>
     LET s  == probe.sourceChar
         t  == probe.targetChar
         c0 == 5 + NearestTo(s.Strength + s.Speed, Max(1, s.Level - t.Level))
         c1 == IF Accuracy \in s.Buffs THEN 2 * c0 ELSE c0
         c  == IF Blink \in t.Buffs
               THEN (CHOOSE h \in -200..200 :
                       (c1 >= 0 /\ 2 * h <= c1 /\ c1 < 2 * h + 2)
                       \/ (c1 < 0 /\ 2 * h >= c1 /\ c1 > 2 * h - 2))
               ELSE c1
     IN  /\ probe.critChance = Max(5, c)
         /\ probe.critChance >= 5
         /\ (probe.pc = "crit-done" => (probe.crit <=> probe.critRoll < probe.critChance))
         /\ (s.Level = 10 /\ t.Level = 5 /\ s.Strength = 20 /\ s.Speed = 30
               /\ s.Buffs = {} /\ t.Buffs = {} => probe.critChance = 15)

C11_RollTenCritsAtFifteen ==
  /\ probe.pc = "crit-done"
  /\ probe.sourceChar.Level = 10 /\ probe.targetChar.Level = 5
  /\ probe.sourceChar.Strength = 20 /\ probe.sourceChar.Speed = 30
  /\ probe.sourceChar.Buffs = {} /\ probe.targetChar.Buffs = {}
  /\ probe.critChance = 15
  /\ probe.critRoll = 10
  /\ probe.crit

Range(seq) == {seq[k] : k \in 1..Len(seq)}

\* number of discrete attacks resolved so far by the call in flight / last call
AttacksMade == Len(attackResult.MessagesToSource)

\* C12: when source and target are in the same room, the to-target-room
\* channel of the result of calculateCombat and of GetWaitMessages is empty
\* after any number of discrete attacks; it holds entries only when the
\* rooms differ.
C12_NoTargetRoomWhenTogether ==
  /\ (sourceChar.RoomId = targetChar.RoomId) => attackResult.MessagesToTargetRoom = <<>>
  /\ (attackResult.MessagesToTargetRoom # <<>>) => sourceChar.RoomId # targetChar.RoomId

C12_TogetherAfterTwoAttacks ==
  /\ Returned
  /\ sourceChar.RoomId = targetChar.RoomId
  /\ Len(attackResult.MessagesToSourceRoom) >= 2
  /\ attackResult.MessagesToTargetRoom = <<>>

\* Crits was called for the last discrete attack (line 306: only on a hit with
\* the round's Crit flag unset) and returned true
OwnCritRollSucceeded == last.critRolled /\ last.critBonus

\* C13 (as stated): a hit's pre-mitigation damage includes the crit bonus
\* exactly when that discrete attack is itself a crit: it is the first attack
\* of a round entered in opening-strike mode, or its own crit roll was drawn
\* and succeeded.  A crit flagged earlier in the round adds no bonus to a
\* later hit.
C13_CritBonusOnlyOnOwnCrit ==
  (entry \in AttackEntries /\ Attacked /\ last.hit) =>
     (last.critBonus <=>
        \/ (entryAggro = BackStab /\ AttacksMade = 1)
        \/ OwnCritRollSucceeded)

\* C14 (as stated): in each Attack* entry point the role tag passed to the
\* resolver for each side equals that participant's kind, so that in every
\* narrated message a mob, as source or as target, is named by its generated
\* mob display name.
C14_RoleTagIsKind ==
  (entry \in AttackEntries) =>
     /\ sourceType = atkChar.Kind
     /\ targetType = defChar.Kind
     /\ \A m \in Range(attackResult.MessagesToSource) \cup Range(attackResult.MessagesToTarget)
               \cup Range(attackResult.MessagesToSourceRoom)
               \cup Range(attackResult.MessagesToTargetRoom) :
          /\ (atkChar.Kind = Mob => m.Source = GetMobName("source"))
          /\ (defChar.Kind = Mob => m.Target = GetMobName("target"))

LedgerEntry(ledger, id) == IF id \in DOMAIN ledger THEN ledger[id] ELSE 0

\* the ledger after the step is the ledger before it with amount added to
\* the entry of id (created at 0 if absent) and nothing else changed
CreditedTo(id, amount) ==
  /\ DOMAIN DamageTaken' = DOMAIN DamageTaken \cup {id}
  /\ DamageTaken'[id] = LedgerEntry(DamageTaken, id) + amount
  /\ \A u \in DOMAIN DamageTaken : u # id => DamageTaken'[u] = DamageTaken[u]

\* the step is the return of an Attack* entry point
Returns == pc = "cycle" /\ pc' = "idle"

\* the health and ledger updates of C15, without the monotonicity
C15_ExactCredit ==
  Returns =>
     /\ defChar'.Health = defChar.Health - attackResult.DamageToTarget
     /\ (entry = "AttackPlayerVsMob" =>
           CreditedTo(UserIdOfAttacker, attackResult.DamageToTarget))
     /\ (entry = "AttackMobVsMob" /\ atkChar.CharmedUserId > 0 =>
           CreditedTo(atkChar.CharmedUserId, attackResult.DamageToTarget))
     /\ (entry = "AttackMobVsMob" /\ ~(atkChar.CharmedUserId > 0) =>
           DamageTaken' = DamageTaken)
     /\ (entry \in {"AttackPlayerVsPlayer", "AttackMobVsPlayer"} =>
           DamageTaken' = DamageTaken)

\* C15 (as stated): AttackPlayerVsMob lowers the mob's health by
\* DamageToTarget and adds exactly DamageToTarget to the ledger entry of the
\* attacking user; AttackMobVsMob credits the charming user iff its id is
\* > 0; no other entry changes; and no ledger entry ever decreases.
C15_LedgerGrowsByDamage ==
  [][/\ C15_ExactCredit
     /\ \A u \in DOMAIN DamageTaken' :
          DamageTaken'[u] >= LedgerEntry(DamageTaken, u)]_vars

\* the messages the last discrete attack sent to the source and the target
LastToSource == attackResult.MessagesToSource[Len(attackResult.MessagesToSource)]
LastToTarget == attackResult.MessagesToTarget[Len(attackResult.MessagesToTarget)]

\* C16 (as stated): the item-name token of a discrete attack's messages is
\* the display name of the weapon that performs that attack (the racial
\* unarmed name for the empty hands); an off-hand attack is narrated with
\* the off-hand weapon's name.
C16_NarratedWithAttackingWeapon ==
  (entry \in AttackEntries /\ Attacked) =>
     LET name == IF last.ItemId > 0 THEN DisplayName(last.ItemId) ELSE UnarmedName
     IN  /\ LastToSource.ItemName = name
         /\ LastToTarget.ItemName = name

\* C17 (as stated): when the rooms differ, every message in the
\* to-target-room channel is built from the separate-variant defender-room
\* template with its tokens filled, a template other than the one of the
\* to-source-room channel, for GetWaitMessages and for calculateCombat.
C17_TargetRoomFromDefenderRoomTemplate ==
  (sourceChar.RoomId # targetChar.RoomId) =>
     \A m \in Range(attackResult.MessagesToTargetRoom) :
        /\ m.variant = "Separate"
        /\ m.audience = "ToDefenderRoom"
        /\ \A f \in TokenNames : m[f] # ""
        /\ \A m2 \in Range(attackResult.MessagesToSourceRoom) : m2.audience # m.audience

\* the step resolves one discrete attack
AttackStep == j' = j + 1

\* C18: the result is accumulated additively, exactly once per discrete
\* attack: the totals are 0 when the resolver starts; each discrete attack
\* adds its post-mitigation damage to DamageToTarget and its reduction to
\* DamageToTargetReduction, the two adding up to its pre-mitigation damage;
\* no other step of the call changes the totals.  Hence at the end of a
\* round DamageToTarget, DamageToTargetReduction and their sum are the sums
\* of the per-attack damages, reductions and pre-mitigation damages.
C18_AdditiveAccumulation ==
  [][/\ (pc = "idle" /\ pc' = "cycle" =>
           /\ attackResult'.DamageToTarget = 0
           /\ attackResult'.DamageToTargetReduction = 0)
     /\ (AttackStep =>
           /\ attackResult'.DamageToTarget = attackResult.DamageToTarget + last'.dmg
           /\ attackResult'.DamageToTargetReduction
                = attackResult.DamageToTargetReduction + last'.red
           /\ last'.dmg + last'.red = last'.pre
           /\ AttacksMade' = AttacksMade + 1)
     /\ (pc # "idle" /\ ~AttackStep =>
           /\ attackResult'.DamageToTarget = attackResult.DamageToTarget
           /\ attackResult'.DamageToTargetReduction = attackResult.DamageToTargetReduction
           /\ AttacksMade' = AttacksMade)]_vars

C18_TwoMitigatedHitsSummed ==
  /\ Returned
  /\ AttacksMade = 2
  /\ last.hit /\ last.red > 0 /\ last.dmg > 0
  /\ attackResult.DamageToTarget > last.dmg
  /\ attackResult.DamageToTargetReduction > last.red

\* the largest attack grant of the weapons and of the empty hands
MaxGrant ==
  LET grants == {GetDiceRoll(id).attacks : id \in ItemIds \ {0}}
                  \cup {GetDefaultDiceRoll.attacks}
  IN  CHOOSE g \in grants : \A h \in grants : h <= g

\* C19: every resolver call terminates, after exactly N discrete attacks, N
\* the sum over the attack cycles and over each cycle's active weapons of
\* the weapon's attack grant: the call leaves a weapon only after exactly
\* its grant of attacks, leaves a cycle only after its last active weapon,
\* and returns only after attackCount cycles; N <= attackCount x 2 x the
\* largest grant.  Each discrete attack appends one message to the
\* to-source channel and keeps the earlier ones, so on return the channel
\* holds N entries in execution order.
C19_TerminatesAfterAllAttacks ==
  /\ [](pc # "idle" ~> pc = "idle")
  /\ [][/\ (AttackStep =>
              /\ j < DiceOf(attackWeapons[w]).attacks
              /\ AttacksMade' = AttacksMade + 1
              /\ attackResult'.MessagesToSource
                   = Append(attackResult.MessagesToSource, LastToSource')
              /\ LastToSource'.subtype = WeaponSubTypeOf(attackWeapons[w])
              /\ last'.cycle = i)
        /\ (pc = "attack" /\ ~AttackStep =>
              attackResult'.MessagesToSource = attackResult.MessagesToSource)
        /\ (pc = "attack" /\ w' = w + 1 => j = DiceOf(attackWeapons[w]).attacks)
        /\ (i' = i + 1 => w = Len(attackWeapons) + 1)
        /\ (Returns => i = attackCount)]_vars
  /\ [](entry \in AttackEntries =>
          /\ Len(attackWeapons) <= 2
          /\ AttacksMade <= attackCount * 2 * MaxGrant)

C19_SixAttacksInOrder ==
  /\ Returned
  /\ attackCount = 2
  /\ AttacksMade = 6
  /\ attackResult.MessagesToSource[1].subtype = "slashing"
  /\ attackResult.MessagesToSource[2].subtype = "stabbing"
  /\ attackResult.MessagesToSource[3].subtype = "stabbing"
  /\ attackResult.MessagesToSource[4].subtype = "slashing"

\* C20: every result of the resolver has DamageToSource = 0 and
\* DamageToSourceReduction = 0, whatever the source's defense rating and
\* rolls; every Attack* entry point leaves the attacker's health unchanged
\* and changes only the target's health, by -DamageToTarget.
C20_NoCounterDamage ==
  /\ [](/\ attackResult.DamageToSource = 0
        /\ attackResult.DamageToSourceReduction = 0
        /\ last.srcPre = 0 /\ last.srcRed = 0)
  /\ [][/\ atkChar'.Health = atkChar.Health
        /\ (Returns =>
              /\ defChar'.Health = defChar.Health - attackResult.DamageToTarget
              /\ [atkChar' EXCEPT !.Health = 0] = [atkChar EXCEPT !.Health = 0]
              /\ [defChar' EXCEPT !.Health = 0] = [defChar EXCEPT !.Health = 0])
        /\ (~Returns => defChar' = defChar)]_vars

C20_DefendedSourceUnhurt ==
  /\ Returned
  /\ sourceChar.Defense > 0
  /\ attackResult.Hit
  /\ attackResult.DamageToTarget > 0
  /\ attackResult.DamageToSource = 0
  /\ atkChar.Health = 100
  /\ defChar.Health = 100 - attackResult.DamageToTarget

====
